---------------------------- MODULE Spec2Model ----------------------------
(***************************************************************************)
(* A model of the TODO-to-issue reconciliation pipeline of this repository.*)
(* The repository keeps two versions of the pipeline script:               *)
(*   script "A" : src/unnamed/part_000 (https requests, user-then-         *)
(*                organization container resolution per created issue)     *)
(*   script "B" : src/unnamed/part_001 (octokit, paginated read, "viewer"  *)
(*                container resolution once per run)                       *)
(* Both are modelled; the variable script says which one a behaviour runs. *)
(*                                                                         *)
(* Text is modelled as a sequence of tokens.  A token is a piece of text   *)
(* that the regular expressions of the source treat as a unit: a single    *)
(* character ("a", "|", " ", the line feed NL), or a literal the source    *)
(* searches for or writes as a whole ("TODO:", "fingerprint=", "//").      *)
(***************************************************************************)
EXTENDS Integers, Sequences, FiniteSets, TLC

(***************************************************************************)
(* Bounds of the model.                                                    *)
(***************************************************************************)
MaxRuns == 2
MaxStrLen == 2

(***************************************************************************)
(* Program constants.                                                      *)
(***************************************************************************)
PerPage == 100

\* null / undefined: a one-token text no scanned or built text equals.
Null == <<"<null>">>
NL == "\n"
FP == "fingerprint="
DELIM == "|"
\* The backquote character and the code fence of three backquotes.
BQ == "BQ"
FENCE == "BQBQBQ"

(***************************************************************************)
(* JavaScript string helpers.                                              *)
(***************************************************************************)
\* White space as String.prototype.trim and \s see it.
IsSpace(c) == c \in {" ", NL}

\* A line terminator: the only thing `.` does not match.
IsLineTerminator(c) == c = NL

RECURSIVE TrimStart(_)
TrimStart(s) ==
  IF s = <<>> THEN <<>>
  ELSE IF IsSpace(Head(s)) THEN TrimStart(Tail(s)) ELSE s

RECURSIVE TrimEnd(_)
TrimEnd(s) ==
  IF s = <<>> THEN <<>>
  ELSE IF IsSpace(s[Len(s)]) THEN TrimEnd(SubSeq(s, 1, Len(s) - 1)) ELSE s

\* String.prototype.trim
Trim(s) == TrimEnd(TrimStart(s))

\* The end (exclusive) of the longest run of non-line-terminators from i.
RECURSIVE DotRunEnd(_, _)
DotRunEnd(s, i) ==
  IF i > Len(s) \/ IsLineTerminator(s[i]) THEN i ELSE DotRunEnd(s, i + 1)

\* The first index >= i that is not white space (Len(s)+1 when none).
RECURSIVE SkipSpaces(_, _)
SkipSpaces(s, i) ==
  IF i > Len(s) \/ ~IsSpace(s[i]) THEN i ELSE SkipSpaces(s, i + 1)

\* Array.prototype.join of a sequence of strings.
RECURSIVE Join(_, _)
Join(parts, sep) ==
  IF parts = <<>> THEN <<>>
  ELSE IF Len(parts) = 1 THEN parts[1]
  ELSE parts[1] \o <<sep>> \o Join(Tail(parts), sep)

\* String.prototype.split('\n')
RECURSIVE SplitLines(_)
SplitLines(s) ==
  LET e == DotRunEnd(s, 1)
  IN  IF e > Len(s) THEN <<s>>
      ELSE <<SubSeq(s, 1, e - 1)>> \o SplitLines(SubSeq(s, e + 1, Len(s)))

(***************************************************************************)
(* Identity Deriver.                                                       *)
(***************************************************************************)
\* `${filePath}|${todoText}`
generateFingerprint(filePath, todoText) == filePath \o <<DELIM>> \o todoText

(***************************************************************************)
(* The body marker: body.match(/fingerprint=(.+)/) and match[1].trim().    *)
(***************************************************************************)
\* The leftmost index at which /fingerprint=(.+)/ matches, 0 when none: the
\* literal must be followed by at least one character that `.` matches.
RECURSIVE MarkerIndex(_, _)
MarkerIndex(body, i) ==
  IF i >= Len(body) THEN 0
  ELSE IF body[i] = FP /\ ~IsLineTerminator(body[i + 1]) THEN i
  ELSE MarkerIndex(body, i + 1)

\* issue.body?.match(/fingerprint=(.+)/) followed by match[1].trim();
\* Null when the body is null or nothing matches.
extractFingerprint(body) ==
  IF body = Null THEN Null
  ELSE LET i == MarkerIndex(body, 1)
       IN  IF i = 0 THEN Null
           ELSE Trim(SubSeq(body, i + 1, DotRunEnd(body, i + 1) - 1))

(***************************************************************************)
(* Record Creator: the issue body of each script.                          *)
(***************************************************************************)
issueBodyA(filePath, fingerprint) ==
  <<"**File:** ", BQ>> \o filePath \o <<BQ, NL, NL, "---", NL, "**CI_METADATA**", NL, FP>>
    \o fingerprint \o <<NL>>

issueBodyB(filePath, todoText, fingerprint) ==
  <<"**File:** ", BQ>> \o filePath \o <<BQ, NL, NL, "**TODO:**", NL>> \o todoText
    \o <<NL, NL, "---", NL, "**CI_METADATA**", NL, FENCE, NL, FP>>
    \o fingerprint \o <<NL, FENCE, NL>>

issueTitle(todoText) == <<"TODO: ">> \o todoText

(***************************************************************************)
(* Annotation Scanner.                                                     *)
(*                                                                         *)
(* A tree is the sequence of the root directory's entries in readdir       *)
(* order.  An entry is a record with a name (a text) and a kind:           *)
(*   "dir"   with entries, the directory's own entries;                    *)
(*   "file"  with readable (FALSE: readFileSync throws) and content;       *)
(*   "other" (a socket, a dangling link): neither isDirectory nor isFile.  *)
(***************************************************************************)
EXCLUDED_DIRS_A ==
  { <<".git">>, <<"node_modules">>, <<"vendor">>, <<"build">>, <<"dist">>,
    <<"out">>, <<"coverage">>, <<".next">>, <<".idea">>, <<".vscode">> }

EXCLUDED_DIRS_B ==
  { <<".git">>, <<".github">>, <<".circleci">>, <<".cursor">>, <<".vscode">>,
    <<".idea">>, <<".wrangler">>, <<"node_modules">>, <<"vendor">>, <<"build">>,
    <<"dist">>, <<"out">>, <<"coverage">>, <<".next">>, <<"bin">>,
    <<"git_hooks">>, <<"infra">> }

CommentOpen == {"//", "#", "<!--", "/*"}
CommentClose == {"-->", "*/"}

\* The first index >= i that is a closing delimiter or the end of the line.
RECURSIVE LookaheadEnd(_, _)
LookaheadEnd(line, i) ==
  IF i > Len(line) \/ line[i] \in CommentClose THEN i ELSE LookaheadEnd(line, i + 1)

\* /(?:\/\/|#|<!--|\/\*)\s*TODO:\s*(.+?)(?=-->|\*\/|$)/i tried at index i:
\* the captured group, or Null when the pattern does not match there.
todoRegexAt(line, i) ==
  IF line[i] \notin CommentOpen THEN Null
  ELSE LET j == SkipSpaces(line, i + 1)
       IN  IF j > Len(line) \/ line[j] \notin {"TODO:", "todo:"} THEN Null
           ELSE LET k == SkipSpaces(line, j + 1)
                IN  IF k <= Len(line)
                      THEN SubSeq(line, k, LookaheadEnd(line, k + 1) - 1)
                    ELSE IF k > j + 1
                      \* \s* gives its last blank back to (.+?)
                      THEN <<line[Len(line)]>>
                    ELSE Null

\* line.match(todoRegex) of script A: the leftmost match's group, or Null.
RECURSIVE todoRegex(_, _)
todoRegex(line, i) ==
  IF i > Len(line) THEN Null
  ELSE LET m == todoRegexAt(line, i)
       IN  IF m # Null THEN m ELSE todoRegex(line, i + 1)

\* line.match(/TODO:\s*(.+)/) of script B (case-sensitive): the group, or Null.
RECURSIVE todoMatch(_, _)
todoMatch(line, i) ==
  IF i >= Len(line) THEN Null
  ELSE IF line[i] = "TODO:" THEN SubSeq(line, i + 1, Len(line))
  ELSE todoMatch(line, i + 1)

\* extractTodos of script A, the loop over the lines of one file.
RECURSIVE extractLinesA(_, _)
extractLinesA(lines, relativePath) ==
  IF lines = <<>> THEN <<>>
  ELSE LET m == todoRegex(Head(lines), 1)
           rest == extractLinesA(Tail(lines), relativePath)
       IN  IF m = Null THEN rest
           ELSE <<[text |-> Trim(m), filePath |-> relativePath,
                   fingerprint |-> relativePath \o <<DELIM>> \o Trim(m)]>> \o rest

extractTodos(file, relativePath) ==
  IF ~file.readable THEN <<>>
  ELSE extractLinesA(SplitLines(file.content), relativePath)

\* The lines.forEach of script B, from line number n.
RECURSIVE extractLinesB(_, _, _)
extractLinesB(lines, relativePath, n) ==
  IF lines = <<>> THEN <<>>
  ELSE LET m == todoMatch(Head(lines), 1)
           rest == extractLinesB(Tail(lines), relativePath, n + 1)
       IN  IF m = Null THEN rest
           ELSE <<[filePath |-> relativePath, text |-> Trim(m), lineNumber |-> n]>>
                  \o rest

\* path.relative(rootDir, path.join(dir, entry.name)), dir given by its
\* components below the root.
relPath(dirParts, name) == Join(dirParts \o <<name>>, "/")

\* scanDirectory without the test of EXCLUDED_DIRS.
RECURSIVE scanDirectory_Unpruned(_, _)
scanDirectory_Unpruned(entries, dirParts) ==
  IF entries = <<>> THEN <<>>
  ELSE LET entry == Head(entries)
           rest == scanDirectory_Unpruned(Tail(entries), dirParts)
       IN  IF entry.kind = "dir"
             THEN scanDirectory_Unpruned(entry.entries, dirParts \o <<entry.name>>)
                    \o rest
           ELSE IF entry.kind = "file"
             THEN extractTodos(entry, relPath(dirParts, entry.name)) \o rest
           ELSE rest

\* scanDirectory + extractTodos of script A over the entries of one directory.
RECURSIVE scanDirectory(_, _)
scanDirectory(entries, dirParts) ==
  IF entries = <<>> THEN <<>>
  ELSE LET entry == Head(entries)
           rest == scanDirectory(Tail(entries), dirParts)
       IN  IF entry.kind = "dir"
             THEN IF entry.name \in EXCLUDED_DIRS_A THEN rest
                  ELSE scanDirectory(entry.entries, dirParts \o <<entry.name>>) \o rest
           ELSE IF entry.kind = "file"
             THEN extractTodos(entry, relPath(dirParts, entry.name)) \o rest
           ELSE rest

\* scanForTodos of script B over the entries of one directory.
RECURSIVE scanForTodos(_, _)
scanForTodos(entries, dirParts) ==
  IF entries = <<>> THEN <<>>
  ELSE LET entry == Head(entries)
           rest == scanForTodos(Tail(entries), dirParts)
       IN  IF entry.kind = "dir"
             THEN IF entry.name \in EXCLUDED_DIRS_B THEN rest
                  ELSE scanForTodos(entry.entries, dirParts \o <<entry.name>>) \o rest
           ELSE IF entry.kind = "file"
             THEN (IF entry.readable
                     THEN extractLinesB(SplitLines(entry.content),
                                        relPath(dirParts, entry.name), 1)
                     ELSE <<>>) \o rest
           ELSE rest

\* The files main passes to extractTodos, which calls readFileSync on each:
\* what the generator scanDirectory of script A yields.
RECURSIVE readFileSyncA(_, _)
readFileSyncA(entries, dirParts) ==
  IF entries = <<>> THEN <<>>
  ELSE LET entry == Head(entries)
           rest == readFileSyncA(Tail(entries), dirParts)
       IN  IF entry.kind = "dir"
             THEN IF entry.name \in EXCLUDED_DIRS_A THEN rest
                  ELSE readFileSyncA(entry.entries, dirParts \o <<entry.name>>) \o rest
           ELSE IF entry.kind = "file"
             THEN <<relPath(dirParts, entry.name)>> \o rest
           ELSE rest

\* The files scanForTodos of script B calls readFileSync on.
RECURSIVE readFileSyncB(_, _)
readFileSyncB(entries, dirParts) ==
  IF entries = <<>> THEN <<>>
  ELSE LET entry == Head(entries)
           rest == readFileSyncB(Tail(entries), dirParts)
       IN  IF entry.kind = "dir"
             THEN IF entry.name \in EXCLUDED_DIRS_B THEN rest
                  ELSE readFileSyncB(entry.entries, dirParts \o <<entry.name>>) \o rest
           ELSE IF entry.kind = "file"
             THEN <<relPath(dirParts, entry.name)>> \o rest
           ELSE rest

(***************************************************************************)
(* The source trees and tracker states the runs start from.                *)
(***************************************************************************)
File(name, content) ==
  [name |-> name, kind |-> "file", readable |-> TRUE, content |-> content]
Unreadable(name) ==
  [name |-> name, kind |-> "file", readable |-> FALSE, content |-> <<>>]
Dir(name, entries) == [name |-> name, kind |-> "dir", entries |-> entries]
Other(name) == [name |-> name, kind |-> "other"]

\* No annotation at all.
TreeNone == << File(<<"README">>, <<"hello", NL, "todo:", " ", "later">>) >>

\* a.txt with `// TODO: fix auth` at line 3, b.txt with `# TODO: fix auth`.
TreeExample ==
  << File(<<"a.txt">>, <<"x", NL, "y", NL, "//", " ", "TODO:", " ", "fix", " ", "auth">>),
     File(<<"b.txt">>, <<"#", " ", "TODO:", " ", "fix", " ", "auth", " ">>) >>

\* An annotation whose text holds the marker key, and a file whose name does.
TreeMarker ==
  << File(<<"m.js">>, <<"//", " ", "TODO:", " ", "set", " ", FP, "abc">>),
     File(<<FP, "x.js">>, <<"/*", " ", "TODO:", " ", "tidy", " ", "*/">>) >>

\* A file name holding the delimiter: (a|b, c) and (a, b|c).
TreeDelim ==
  << File(<<"a">>, <<"//", "TODO:", "b", DELIM, "c">>),
     File(<<"a", DELIM, "b">>, <<"//", "TODO:", "c">>) >>

\* The same annotation twice in one file, excluded directories at two depths,
\* an unreadable file and an entry that is neither file nor directory.
TreeMixed ==
  << Dir(<<"node_modules">>, << File(<<"dep.js">>, <<"//", "TODO:", "dep">>) >>),
     Dir(<<"src">>,
         << Dir(<<"build">>, << File(<<"o.js">>, <<"//", "TODO:", "gen">>) >>),
            Unreadable(<<"img.png">>),
            File(<<"r.js">>, <<"//", " ", "TODO:", " ", "later", NL, "let", NL,
                               "//", " ", "TODO:", " ", "later">>) >>),
     Other(<<"sock">>) >>

Trees == {TreeNone, TreeExample, TreeMarker, TreeDelim, TreeMixed}

Record(nodeId, title, body, labels, state) ==
  [node_id |-> nodeId, title |-> title, body |-> body, labels |-> labels,
   state |-> state]

\* An open TODO-labelled issue somebody wrote by hand: it has no body.
Filler(n) == Record(n, <<"manual">>, Null, {"todo"}, "open")

\* The record an earlier run of script s made for a.txt|fix auth.
Tracked(n, s) ==
  Record(n, issueTitle(<<"fix", " ", "auth">>),
         IF s = "A"
           THEN issueBodyA(<<"a.txt">>, <<"a.txt", DELIM, "fix", " ", "auth">>)
           ELSE issueBodyB(<<"a.txt">>, <<"fix", " ", "auth">>,
                           <<"a.txt", DELIM, "fix", " ", "auth">>),
         {"engineering", "todo"}, "open")

\* The tracker lists the newest record first.
TrackerEmpty == <<>>
TrackerExample(s) ==
  << Record(3, <<"notes">>, <<"no", " ", "marker", NL, FP, NL>>, {"todo"}, "open"),
     Tracked(2, s),
     Filler(1) >>
\* More open TODO-labelled records than one page holds, the tracked one oldest.
TrackerPaged(s) == [i \in 1..(PerPage + 1) |->
                      IF i <= PerPage THEN Filler(PerPage + 2 - i) ELSE Tracked(1, s)]

Trackers(s) == {TrackerEmpty, TrackerExample(s), TrackerPaged(s)}

(***************************************************************************)
(* Remote State Reader.                                                    *)
(***************************************************************************)
\* openTodoIssues without the labels and state parameters of the request.
openTodoIssues_Unfiltered(records) == records

\* What the tracker lists for labels=todo&state=open, newest first.
openTodoIssues(records) ==
  SelectSeq(records, LAMBDA r : r.state = "open" /\ "todo" \in r.labels)

Min(a, b) == IF a <= b THEN a ELSE b

\* Page n (from 1) of a listing, per_page records a page.
pageOf(list, n) == SubSeq(list, (n - 1) * PerPage + 1, Min(n * PerPage, Len(list)))

\* The number of pages paginate.iterator requests: one even for no record.
pageCount(list) == IF Len(list) = 0 THEN 1 ELSE (Len(list) + PerPage - 1) \div PerPage

\* The loop over the issues of one response: the fingerprints it adds.
fingerprintsOf(issues) ==
  { extractFingerprint(issues[i].body) : i \in 1..Len(issues) } \ {Null}

\* fetchExistingTodoIssues of script A on a successful response: one request,
\* one page.
fetchExistingTodoIssues(records) == fingerprintsOf(pageOf(openTodoIssues(records), 1))

(***************************************************************************)
(* The state.                                                              *)
(***************************************************************************)
VARIABLES
  script,               \* "A" or "B": the version of the pipeline that runs
  env,                  \* "ok", "noToken" or "noRepo": the environment variables
  tree,                 \* the source tree under the working directory
  tracker,              \* remote: the tracker's records, newest first
  projectOwner,         \* remote: "user", "organization" or "none": who owns
                        \* the project with the configured number
  run,                  \* the number of the current run
  pc,                   \* where main is
  todos,                \* allTodos (A) / todos (B)
  filesRead,            \* the paths readFileSync was called with, in order
  existingFingerprints, \* the set fetchExistingTodoIssues builds
  newTodos,             \* B: the filtered list of Step 3
  idx,                  \* the loop's position in allTodos (A) / newTodos (B)
  page,                 \* B: the page the iterator requests next
  projectId,            \* the container id in hand (A: the local of
                        \* addIssueToProject), NoProject when none
  issue,                \* the issue the last create call returned
  createdCount,
  exitCode,             \* the process's exit code, Running before it ends
  summary,              \* the counts printed at the end
  log,                  \* the remote calls (and pacing delays) of this run
  prevCreated,          \* the identities the previous run created records for
  prevCompleted,        \* whether the previous run ended without a fatal error
  editedAfter,          \* remote: the run after which somebody last closed or
                        \* unlabelled a record of the tracker, 0 when nobody did
  \* The state of the function-level specification SpecId:
  annA, annB,           \* two annotations [filePath, text] the scanner produced
  idStep,               \* "input", "generated", "built", "read" ("off" in Spec)
  derived               \* what the functions returned so far

pipeVars ==
  << script, env, tree, tracker, projectOwner, run, pc, todos, filesRead,
     existingFingerprints, newTodos, idx, page, projectId, issue, createdCount,
     exitCode, summary, log, prevCreated, prevCompleted, editedAfter >>

idVars == << annA, annB, idStep, derived >>

\* The state of the poll application (specifications SpecVote and SpecForm):
VARIABLES
  pollRepository,       \* backend: the stored polls, by id
  voteCalls,            \* backend: the calls of PollService.vote, by thread
  newPoll,              \* PollComponent: the draft poll of the form
  polls,                \* PollComponent: the polls the page lists
  pending,              \* PollComponent: createPoll requests without a response
  alert                 \* PollComponent: the message of the last alert shown

formVars == << newPoll, polls, pending, alert >>

pollVars == << pollRepository, voteCalls, formVars >>

vars == << pipeVars, idVars, pollVars >>

\* The poll application is not part of a behaviour of the pipeline.
PollIdle ==
  /\ pollRepository = <<>>
  /\ voteCalls = <<>>
  /\ newPoll = [question |-> "", options |-> <<>>]
  /\ polls = <<>>
  /\ pending = <<>>
  /\ alert = ""

NoProject == "undefined"
NoIssue == [node_id |-> 0]
Running == -1
NoSummary == [printed |-> FALSE, found |-> 0, created |-> 0, skipped |-> 0]

NoAnnotation == [filePath |-> <<>>, text |-> <<>>]
NoDerived == [fpA |-> Null, fpB |-> Null, body |-> Null, marker |-> Null]

\* One entry of the log.
Call(op, item, arg, res) == [op |-> op, item |-> item, arg |-> arg, res |-> res]

Scripts == {"A", "B"}
Envs == {"ok", "noToken", "noRepo"}
Owners == {"user", "organization", "none"}

\* The local state of main when a run starts.
RunStart ==
  /\ pc = "start"
  /\ todos = <<>>
  /\ filesRead = <<>>
  /\ existingFingerprints = {}
  /\ newTodos = <<>>
  /\ idx = 0
  /\ page = 0
  /\ projectId = NoProject
  /\ issue = NoIssue
  /\ createdCount = 0
  /\ exitCode = Running
  /\ summary = NoSummary
  /\ log = <<>>

Init ==
  /\ script \in Scripts
  /\ env \in Envs
  /\ tree \in Trees
  /\ tracker \in Trackers(script)
  /\ projectOwner \in Owners
  /\ run = 1
  /\ prevCreated = {}
  /\ prevCompleted = FALSE
  /\ editedAfter = 0
  /\ RunStart
  /\ annA = NoAnnotation /\ annB = NoAnnotation
  /\ idStep = "off"
  /\ derived = NoDerived
  /\ PollIdle

remote == << tracker, projectOwner >>
config ==
  << script, env, tree, run, prevCreated, prevCompleted, editedAfter, idVars,
     pollVars >>

\* main().catch: console.error and process.exit(1).
Fatal ==
  /\ pc' = "exit"
  /\ exitCode' = 1

\* The record the tracker stores for a successful create call.
newRecord(title, body) ==
  Record(Len(tracker) + 1, title, body, {"engineering", "todo"}, "open")

(***************************************************************************)
(* Script A: main of src/unnamed/part_000.                                 *)
(***************************************************************************)
\* A_Validate without the test of the environment.
A_Validate_Unchecked ==
  /\ script = "A" /\ pc = "start"
  /\ pc' = "fetch"
  /\ UNCHANGED << config, remote, todos, filesRead, existingFingerprints, newTodos, idx, page,
                  projectId, issue, createdCount, exitCode, summary, log >>

\* Validate environment.
A_Validate ==
  /\ script = "A" /\ pc = "start"
  /\ IF env # "ok" THEN Fatal ELSE pc' = "fetch" /\ UNCHANGED exitCode
  /\ UNCHANGED << config, remote, todos, filesRead, existingFingerprints, newTodos, idx, page,
                  projectId, issue, createdCount, summary, log >>

\* A_Fetch with the rejection swallowed: the run goes on with an empty set.
A_Fetch_Swallow ==
  /\ script = "A" /\ pc = "fetch"
  /\ \E ok \in BOOLEAN :
       /\ log' = Append(log, Call("list", 0, 1, IF ok THEN "ok" ELSE "fail"))
       /\ existingFingerprints' = IF ok THEN fetchExistingTodoIssues(tracker) ELSE {}
       /\ pc' = "scan"
       /\ UNCHANGED exitCode
  /\ UNCHANGED << config, remote, todos, filesRead, newTodos, idx, page, projectId, issue,
                  createdCount, summary >>

\* await fetchExistingTodoIssues(): one request; a rejection is fatal.
A_Fetch ==
  /\ script = "A" /\ pc = "fetch"
  /\ \E ok \in BOOLEAN :
       /\ log' = Append(log, Call("list", 0, 1, IF ok THEN "ok" ELSE "fail"))
       /\ IF ok
            THEN /\ existingFingerprints' = fetchExistingTodoIssues(tracker)
                 /\ pc' = "scan"
                 /\ UNCHANGED exitCode
            ELSE /\ Fatal
                 /\ UNCHANGED existingFingerprints
  /\ UNCHANGED << config, remote, todos, filesRead, newTodos, idx, page, projectId, issue,
                  createdCount, summary >>

\* The paths of the files of a tree that readFileSync throws on.
RECURSIVE UnreadablePaths(_, _)
UnreadablePaths(entries, dirParts) ==
  IF entries = <<>> THEN {}
  ELSE LET entry == Head(entries)
           rest == UnreadablePaths(Tail(entries), dirParts)
       IN  IF entry.kind = "dir"
             THEN UnreadablePaths(entry.entries, dirParts \o <<entry.name>>) \cup rest
           ELSE IF entry.kind = "file" /\ ~entry.readable
             THEN {relPath(dirParts, entry.name)} \cup rest
           ELSE rest

\* A_Scan with extractTodos lacking its try/catch: the first file that
\* cannot be read rejects main.
A_Scan_Uncaught ==
  /\ script = "A" /\ pc = "scan"
  /\ filesRead' = readFileSyncA(tree, <<>>)
  /\ IF \E i \in 1..Len(filesRead') : filesRead'[i] \in UnreadablePaths(tree, <<>>)
       THEN /\ Fatal
            /\ UNCHANGED << todos, idx, createdCount >>
       ELSE /\ todos' = scanDirectory(tree, <<>>)
            /\ idx' = 1
            /\ createdCount' = 0
            /\ pc' = "loop"
            /\ UNCHANGED exitCode
  /\ UNCHANGED << config, remote, existingFingerprints, newTodos, page, projectId,
                  issue, summary, log >>

\* The scan loop of main: allTodos.
A_Scan ==
  /\ script = "A" /\ pc = "scan"
  /\ todos' = scanDirectory(tree, <<>>)
  /\ filesRead' = readFileSyncA(tree, <<>>)
  /\ idx' = 1
  /\ createdCount' = 0
  /\ pc' = "loop"
  /\ UNCHANGED << config, remote, existingFingerprints, newTodos, page, projectId,
                  issue, exitCode, summary, log >>

\* A_Loop without the duplicate test: every scanned annotation is created.
A_Loop_Untested ==
  /\ script = "A" /\ pc = "loop"
  /\ pc' = IF idx > Len(todos) THEN "summary" ELSE "create"
  /\ UNCHANGED << config, remote, todos, filesRead, existingFingerprints, newTodos,
                  idx, page, projectId, issue, createdCount, exitCode, summary, log >>

\* The head of `for (const todo of allTodos)` and its duplicate test.
A_Loop ==
  /\ script = "A" /\ pc = "loop"
  /\ IF idx > Len(todos)
       THEN pc' = "summary" /\ UNCHANGED idx
       ELSE IF todos[idx].fingerprint \in existingFingerprints
         THEN pc' = "loop" /\ idx' = idx + 1
         ELSE pc' = "create" /\ UNCHANGED idx
  /\ UNCHANGED << config, remote, todos, filesRead, existingFingerprints, newTodos, page,
                  projectId, issue, createdCount, exitCode, summary, log >>

\* A_Create without the loop's try/catch: a rejection ends the run.
A_Create_Uncaught ==
  /\ script = "A" /\ pc = "create"
  /\ LET todo == todos[idx] IN
     \E res \in {"ok", "noNode", "fail"} :
       /\ log' = Append(log, Call("create", idx, todo.fingerprint, res))
       /\ IF res = "fail"
            THEN /\ Fatal
                 /\ UNCHANGED << tracker, issue, idx >>
            ELSE /\ tracker' = <<newRecord(issueTitle(todo.text),
                                           issueBodyA(todo.filePath, todo.fingerprint))>>
                                 \o tracker
                 /\ issue' = [node_id |-> IF res = "ok" THEN Len(tracker) + 1 ELSE 0]
                 /\ pc' = IF res = "ok" THEN "resolveUser" ELSE "count"
                 /\ UNCHANGED << idx, exitCode >>
  /\ UNCHANGED << config, projectOwner, todos, filesRead, existingFingerprints, newTodos, page,
                  projectId, createdCount, summary >>

\* await createIssue(todo.text, todo.filePath, todo.fingerprint).  The
\* response either rejects (caught by the loop's catch), or is an issue, with
\* or without a node_id.
A_Create ==
  /\ script = "A" /\ pc = "create"
  /\ LET todo == todos[idx] IN
     \E res \in {"ok", "noNode", "fail"} :
       /\ log' = Append(log, Call("create", idx, todo.fingerprint, res))
       /\ IF res = "fail"
            THEN /\ pc' = "loop" /\ idx' = idx + 1
                 /\ UNCHANGED << tracker, issue >>
            ELSE /\ tracker' = <<newRecord(issueTitle(todo.text),
                                           issueBodyA(todo.filePath, todo.fingerprint))>>
                                 \o tracker
                 /\ issue' = [node_id |-> IF res = "ok" THEN Len(tracker) + 1 ELSE 0]
                 /\ pc' = IF res = "ok" THEN "resolveUser" ELSE "count"
                 /\ UNCHANGED idx
  /\ UNCHANGED << config, projectOwner, todos, filesRead, existingFingerprints, newTodos, page,
                  projectId, createdCount, exitCode, summary >>

\* addIssueToProject, first try block: the user(login) query.  A rejected
\* request and a response without a project id both go on to the
\* organization query.
A_ResolveUser ==
  /\ script = "A" /\ pc = "resolveUser"
  /\ \E res \in {IF projectOwner = "user" THEN "PVT_user" ELSE "none", "error"} :
       /\ log' = Append(log, Call("resolve", idx, "user", res))
       /\ IF res \in {"none", "error"}
            THEN pc' = "resolveOrg" /\ UNCHANGED projectId
            ELSE pc' = "attachUser" /\ projectId' = res
  /\ UNCHANGED << config, remote, todos, filesRead, existingFingerprints, newTodos, idx, page,
                  issue, createdCount, exitCode, summary >>

\* `return await addItemToProject(projectId, issueNodeId)` inside the first
\* try block: its rejection is caught by that block's catch.
A_AttachUser ==
  /\ script = "A" /\ pc = "attachUser"
  /\ \E ok \in BOOLEAN :
       /\ log' = Append(log, Call("attach", idx, <<projectId, issue.node_id>>,
                                  IF ok THEN "ok" ELSE "fail"))
       /\ pc' = IF ok THEN "count" ELSE "resolveOrg"
  /\ projectId' = NoProject
  /\ UNCHANGED << config, remote, todos, filesRead, existingFingerprints, newTodos, idx, page,
                  issue, createdCount, exitCode, summary >>

\* addIssueToProject, second try block: the organization(login) query.
\* Without a project id the function throws, and the loop's catch takes over.
A_ResolveOrg ==
  /\ script = "A" /\ pc = "resolveOrg"
  /\ \E res \in {IF projectOwner = "organization" THEN "PVT_org" ELSE "none", "error"} :
       /\ log' = Append(log, Call("resolve", idx, "organization", res))
       /\ IF res \in {"none", "error"}
            THEN pc' = "loop" /\ idx' = idx + 1 /\ UNCHANGED projectId
            ELSE pc' = "attachOrg" /\ projectId' = res /\ UNCHANGED idx
  /\ UNCHANGED << config, remote, todos, filesRead, existingFingerprints, newTodos, page,
                  issue, createdCount, exitCode, summary >>

\* addItemToProject(orgProjectId, issueNodeId): its rejection is caught by
\* the second catch, after which the function throws.
A_AttachOrg ==
  /\ script = "A" /\ pc = "attachOrg"
  /\ \E ok \in BOOLEAN :
       /\ log' = Append(log, Call("attach", idx, <<projectId, issue.node_id>>,
                                  IF ok THEN "ok" ELSE "fail"))
       /\ IF ok THEN pc' = "count" /\ UNCHANGED idx
                ELSE pc' = "loop" /\ idx' = idx + 1
  /\ projectId' = NoProject
  /\ UNCHANGED << config, remote, todos, filesRead, existingFingerprints, newTodos, page,
                  issue, createdCount, exitCode, summary >>

\* createdCount++ and the start of the rate-limiting wait.
A_Count ==
  /\ script = "A" /\ pc = "count"
  /\ createdCount' = createdCount + 1
  /\ pc' = "delay"
  /\ UNCHANGED << config, remote, todos, filesRead, existingFingerprints, newTodos, idx, page,
                  projectId, issue, exitCode, summary, log >>

\* The end of `await new Promise(resolve => setTimeout(resolve, 1000))`.
A_Delay ==
  /\ script = "A" /\ pc = "delay"
  /\ log' = Append(log, Call("delay", idx, 1000, "ok"))
  /\ idx' = idx + 1
  /\ pc' = "loop"
  /\ UNCHANGED << config, remote, todos, filesRead, existingFingerprints, newTodos, page,
                  projectId, issue, createdCount, exitCode, summary >>

\* The summary and the normal end of main.
A_Summary ==
  /\ script = "A" /\ pc = "summary"
  /\ summary' = [printed |-> TRUE, found |-> Len(todos), created |-> createdCount,
                 skipped |-> Len(todos) - createdCount]
  /\ pc' = "done"
  /\ exitCode' = 0
  /\ UNCHANGED << config, remote, todos, filesRead, existingFingerprints, newTodos, idx, page,
                  projectId, issue, createdCount, log >>

(***************************************************************************)
(* Script B: main of src/unnamed/part_001.                                 *)
(***************************************************************************)
\* Validate environment variables.
B_Validate ==
  /\ script = "B" /\ pc = "start"
  /\ IF env # "ok" THEN Fatal ELSE pc' = "scan" /\ UNCHANGED exitCode
  /\ UNCHANGED << config, remote, todos, filesRead, existingFingerprints, newTodos, idx, page,
                  projectId, issue, createdCount, summary, log >>

\* Step 1: scan; main returns when nothing was found.
B_Scan ==
  /\ script = "B" /\ pc = "scan"
  /\ todos' = scanForTodos(tree, <<>>)
  /\ filesRead' = readFileSyncB(tree, <<>>)
  /\ IF Len(todos') = 0
       THEN pc' = "done" /\ exitCode' = 0 /\ UNCHANGED page
       ELSE pc' = "fetch" /\ page' = 1 /\ UNCHANGED exitCode
  /\ UNCHANGED << config, remote, existingFingerprints, newTodos, idx, projectId,
                  issue, createdCount, summary, log >>

\* Step 2, one turn of `for await (const response of iterator)`: the request
\* of one page and the loop over its issues.  A rejection is rethrown by
\* fetchExistingTodoIssues and is fatal.
B_FetchPage ==
  /\ script = "B" /\ pc = "fetch"
  /\ \E ok \in BOOLEAN :
       /\ log' = Append(log, Call("list", 0, page, IF ok THEN "ok" ELSE "fail"))
       /\ IF ok
            THEN /\ existingFingerprints' =
                      existingFingerprints
                        \cup fingerprintsOf(pageOf(openTodoIssues(tracker), page))
                 /\ IF page < pageCount(openTodoIssues(tracker))
                      THEN page' = page + 1 /\ pc' = "fetch"
                      ELSE pc' = "filter" /\ UNCHANGED page
                 /\ UNCHANGED exitCode
            ELSE /\ Fatal
                 /\ UNCHANGED << existingFingerprints, page >>
  /\ UNCHANGED << config, remote, todos, filesRead, newTodos, idx, projectId, issue,
                  createdCount, summary >>

\* B_Filter with the test of the filter inverted.
B_Filter_Inverted ==
  /\ script = "B" /\ pc = "filter"
  /\ newTodos' = SelectSeq(todos, LAMBDA todo :
                     generateFingerprint(todo.filePath, todo.text)
                       \in existingFingerprints)
  /\ IF Len(newTodos') = 0
       THEN pc' = "done" /\ exitCode' = 0
       ELSE pc' = "getProject" /\ UNCHANGED exitCode
  /\ UNCHANGED << config, remote, todos, filesRead, existingFingerprints, idx, page, projectId,
                  issue, createdCount, summary, log >>

\* Step 3: todos.filter(...); main returns when nothing is new.
B_Filter ==
  /\ script = "B" /\ pc = "filter"
  /\ newTodos' = SelectSeq(todos, LAMBDA todo :
                     generateFingerprint(todo.filePath, todo.text)
                       \notin existingFingerprints)
  /\ IF Len(newTodos') = 0
       THEN pc' = "done" /\ exitCode' = 0
       ELSE pc' = "getProject" /\ UNCHANGED exitCode
  /\ UNCHANGED << config, remote, todos, filesRead, existingFingerprints, idx, page, projectId,
                  issue, createdCount, summary, log >>

\* Step 4: getProjectId under `viewer` (taken to be the owning user); a
\* failure leaves projectId undefined.
B_GetProjectId ==
  /\ script = "B" /\ pc = "getProject"
  /\ \E res \in {IF projectOwner = "user" THEN "PVT_viewer" ELSE "error", "error"} :
       /\ log' = Append(log, Call("resolve", 0, "viewer", res))
       /\ projectId' = IF res = "error" THEN NoProject ELSE res
  /\ idx' = 1
  /\ createdCount' = 0
  /\ pc' = "loop"
  /\ UNCHANGED << config, remote, todos, filesRead, existingFingerprints, newTodos, page, issue,
                  exitCode, summary >>

\* The head of `for (const todo of newTodos)`.
B_Loop ==
  /\ script = "B" /\ pc = "loop"
  /\ pc' = IF idx > Len(newTodos) THEN "complete" ELSE "create"
  /\ UNCHANGED << config, remote, todos, filesRead, existingFingerprints, newTodos, idx, page,
                  projectId, issue, createdCount, exitCode, summary, log >>

\* B_Create without the test of issue.node_id before the attach call.
B_Create_Unguarded ==
  /\ script = "B" /\ pc = "create"
  /\ LET todo == newTodos[idx]
         fingerprint == generateFingerprint(todo.filePath, todo.text)
     IN
     \E res \in {"ok", "noNode", "fail"} :
       /\ log' = Append(log, Call("create", idx, fingerprint, res))
       /\ IF res = "fail"
            THEN /\ pc' = "loop" /\ idx' = idx + 1
                 /\ UNCHANGED << tracker, issue, createdCount >>
            ELSE /\ tracker' = <<newRecord(issueTitle(todo.text),
                                           issueBodyB(todo.filePath, todo.text,
                                                      fingerprint))>>
                                 \o tracker
                 /\ issue' = [node_id |-> IF res = "ok" THEN Len(tracker) + 1 ELSE 0]
                 /\ IF projectId # NoProject
                      THEN pc' = "attach" /\ UNCHANGED << idx, createdCount >>
                      ELSE /\ createdCount' = createdCount + 1
                           /\ idx' = idx + 1
                           /\ pc' = "loop"
  /\ UNCHANGED << config, projectOwner, todos, filesRead, existingFingerprints,
                  newTodos, page, projectId, exitCode, summary >>

\* Step 5: await createIssue(owner, repo, todo, fingerprint).
B_Create ==
  /\ script = "B" /\ pc = "create"
  /\ LET todo == newTodos[idx]
         fingerprint == generateFingerprint(todo.filePath, todo.text)
     IN
     \E res \in {"ok", "noNode", "fail"} :
       /\ log' = Append(log, Call("create", idx, fingerprint, res))
       /\ IF res = "fail"
            THEN /\ pc' = "loop" /\ idx' = idx + 1
                 /\ UNCHANGED << tracker, issue, createdCount >>
            ELSE /\ tracker' = <<newRecord(issueTitle(todo.text),
                                           issueBodyB(todo.filePath, todo.text,
                                                      fingerprint))>>
                                 \o tracker
                 /\ issue' = [node_id |-> IF res = "ok" THEN Len(tracker) + 1 ELSE 0]
                 /\ IF projectId # NoProject /\ res = "ok"
                      THEN pc' = "attach" /\ UNCHANGED << idx, createdCount >>
                      ELSE /\ createdCount' = createdCount + 1
                           /\ idx' = idx + 1
                           /\ pc' = "loop"
  /\ UNCHANGED << config, projectOwner, todos, filesRead, existingFingerprints, newTodos, page,
                  projectId, exitCode, summary >>

\* B_Attach with an update of the issue after a failed attach call: the
\* todo label is taken from the newest record.
B_Attach_Updating ==
  /\ script = "B" /\ pc = "attach"
  /\ \E ok \in BOOLEAN :
       /\ log' = Append(log, Call("attach", idx, <<projectId, issue.node_id>>,
                                  IF ok THEN "ok" ELSE "fail"))
       /\ tracker' = IF ok THEN tracker
                      ELSE [tracker EXCEPT ![1].labels = @ \ {"todo"}]
  /\ createdCount' = createdCount + 1
  /\ idx' = idx + 1
  /\ pc' = "loop"
  /\ UNCHANGED << config, projectOwner, todos, filesRead, existingFingerprints,
                  newTodos, page, projectId, issue, exitCode, summary >>

\* await addIssueToProject(projectId, issue.node_id): it catches its own
\* error; createdCount++ follows either way.
B_Attach ==
  /\ script = "B" /\ pc = "attach"
  /\ \E ok \in BOOLEAN :
       log' = Append(log, Call("attach", idx, <<projectId, issue.node_id>>,
                               IF ok THEN "ok" ELSE "fail"))
  /\ createdCount' = createdCount + 1
  /\ idx' = idx + 1
  /\ pc' = "loop"
  /\ UNCHANGED << config, remote, todos, filesRead, existingFingerprints, newTodos, page,
                  projectId, issue, exitCode, summary >>

\* `Complete! Created ${createdCount} new issue(s)`.
B_Complete ==
  /\ script = "B" /\ pc = "complete"
  /\ summary' = [printed |-> TRUE, found |-> Len(todos), created |-> createdCount,
                 skipped |-> Len(todos) - Len(newTodos)]
  /\ pc' = "done"
  /\ exitCode' = 0
  /\ UNCHANGED << config, remote, todos, filesRead, existingFingerprints, newTodos, idx, page,
                  projectId, issue, createdCount, log >>

(***************************************************************************)
(* The pipeline is run again (the next CI job) on the same tree and the    *)
(* tracker state the run left.                                             *)
(***************************************************************************)
\* The identities of the create calls of this run that succeeded.
createdIdentities ==
  { log[i].arg : i \in { j \in 1..Len(log) :
                           log[j].op = "create" /\ log[j].res # "fail" } }

NextRun ==
  /\ pc \in {"done", "exit"}
  /\ run < MaxRuns
  /\ run' = run + 1
  /\ prevCreated' = createdIdentities
  /\ prevCompleted' = (pc = "done")
  /\ pc' = "start"
  /\ todos' = <<>>
  /\ filesRead' = <<>>
  /\ existingFingerprints' = {}
  /\ newTodos' = <<>>
  /\ idx' = 0
  /\ page' = 0
  /\ projectId' = NoProject
  /\ issue' = NoIssue
  /\ createdCount' = 0
  /\ exitCode' = Running
  /\ summary' = NoSummary
  /\ log' = <<>>
  /\ UNCHANGED << script, env, tree, remote, editedAfter, idVars, pollVars >>

\* Between two runs somebody closes a record of the tracker that has a body,
\* or takes its todo label away; the pipeline never does (createIssue and
\* addItemToProject are its only writes).  One such edit is made at most.
RemoteEdit ==
  /\ pc \in {"done", "exit"}
  /\ run < MaxRuns
  /\ editedAfter = 0
  /\ \E i \in 1..Len(tracker), kind \in {"close", "unlabel"} :
       /\ tracker[i].body # Null
       /\ tracker[i].state = "open" /\ "todo" \in tracker[i].labels
       /\ tracker' = [tracker EXCEPT
                        ![i] = IF kind = "close"
                                 THEN [@ EXCEPT !.state = "closed"]
                                 ELSE [@ EXCEPT !.labels = @ \ {"todo"}]]
  /\ editedAfter' = run
  /\ UNCHANGED << script, env, tree, projectOwner, run, pc, todos, filesRead,
                  existingFingerprints, newTodos, idx, page, projectId, issue,
                  createdCount, exitCode, summary, log, prevCreated, prevCompleted,
                  idVars, pollVars >>

Next ==
  \/ A_Validate \/ A_Fetch \/ A_Scan \/ A_Loop \/ A_Create
  \/ A_ResolveUser \/ A_AttachUser \/ A_ResolveOrg \/ A_AttachOrg
  \/ A_Count \/ A_Delay \/ A_Summary
  \/ B_Validate \/ B_Scan \/ B_FetchPage \/ B_Filter \/ B_GetProjectId
  \/ B_Loop \/ B_Create \/ B_Attach \/ B_Complete
  \/ NextRun \/ RemoteEdit

Spec == Init /\ [][Next]_vars

(***************************************************************************)
(* SpecId: the Identity Deriver, the Record Creator's body and the Remote  *)
(* State Reader's marker match as functions, applied to every pair of      *)
(* annotations over a small alphabet.                                      *)
(***************************************************************************)
\* The characters of a file name or an annotation text.
Chars == {"a", DELIM, FP}

RECURSIVE StringsOfLen(_)
StringsOfLen(n) ==
  IF n = 0 THEN {<<>>}
  ELSE { Append(s, c) : s \in StringsOfLen(n - 1), c \in Chars }

Strings == UNION { StringsOfLen(n) : n \in 0..MaxStrLen }

\* What the scanner can produce: a relative path is not empty, a text is
\* trimmed (it may be empty: `TODO: ` followed by blanks only).
Annotations ==
  { [filePath |-> p, text |-> t] : p \in Strings \ {<<>>},
                                   t \in { u \in Strings : Trim(u) = u } }

InitId ==
  /\ script \in Scripts
  /\ annA \in Annotations /\ annB \in Annotations
  /\ idStep = "input"
  /\ derived = NoDerived
  /\ env = "ok" /\ tree = <<>> /\ tracker = <<>> /\ projectOwner = "none"
  /\ run = 1 /\ prevCreated = {} /\ prevCompleted = FALSE /\ editedAfter = 0
  /\ pc = "idle"
  /\ todos = <<>> /\ filesRead = <<>>
  /\ existingFingerprints = {} /\ newTodos = <<>>
  /\ idx = 0 /\ page = 0 /\ projectId = NoProject /\ issue = NoIssue
  /\ createdCount = 0 /\ exitCode = Running /\ summary = NoSummary
  /\ log = <<>>
  /\ PollIdle

\* The fingerprint of both annotations (A: the template literal of
\* extractTodos, the same join; B: generateFingerprint).
Id_Generate ==
  /\ idStep = "input"
  /\ derived' = [derived EXCEPT
                   !.fpA = generateFingerprint(annA.filePath, annA.text),
                   !.fpB = generateFingerprint(annB.filePath, annB.text)]
  /\ idStep' = "generated"
  /\ UNCHANGED << pipeVars, annA, annB, pollVars >>

\* createIssue builds the body of the record for annA.
Id_Build ==
  /\ idStep = "generated"
  /\ derived' = [derived EXCEPT
                   !.body = IF script = "A"
                              THEN issueBodyA(annA.filePath, derived.fpA)
                              ELSE issueBodyB(annA.filePath, annA.text, derived.fpA)]
  /\ idStep' = "built"
  /\ UNCHANGED << pipeVars, annA, annB, pollVars >>

\* fetchExistingTodoIssues reads the marker back from that body.
Id_Read ==
  /\ idStep = "built"
  /\ derived' = [derived EXCEPT !.marker = extractFingerprint(derived.body)]
  /\ idStep' = "read"
  /\ UNCHANGED << pipeVars, annA, annB, pollVars >>

NextId == Id_Generate \/ Id_Build \/ Id_Read

SpecId == InitId /\ [][NextId]_vars

(***************************************************************************)
(* The backend of the poll application: PollService.vote, called by the    *)
(* request threads of the server.  A call is three steps: findById (a read *)
(* of the repository into an entity of the call's own), the increment of   *)
(* that entity in memory, and save (a write of the whole entity).  The     *)
(* method is not transactional (the annotation is commented out), and the  *)
(* entity is taken to have no version attribute, so a save overwrites      *)
(* whatever the repository holds.                                          *)
(***************************************************************************)
MaxThreads == 2

Threads == 1..MaxThreads

OptionVote(voteOption, voteCount) ==
  [voteOption |-> voteOption, voteCount |-> voteCount]

Poll(question, options) == [question |-> question, options |-> options]

\* The polls the repository holds when the threads start.
InitialPolls ==
  (1 :> Poll("q1", << OptionVote("a", 0), OptionVote("b", 1) >>))
    @@ (2 :> Poll("q2", << OptionVote("x", 2), OptionVote("y", 0),
                            OptionVote("z", 0) >>))

\* The poll ids and option indexes a request may carry: id 3 is no poll's,
\* -1 and 3 are no option's index.
PollIds == {1, 2, 3}
OptionIndexes == -1..3

NoPoll == Poll("", <<>>)

NoCall == [pc |-> "idle", pollId |-> 0, optionIndex |-> 0, poll |-> NoPoll]

InitVote ==
  /\ pollRepository = InitialPolls
  /\ voteCalls = [t \in Threads |-> NoCall]
  /\ newPoll = [question |-> "", options |-> <<>>]
  /\ polls = <<>>
  /\ pending = <<>>
  /\ alert = ""
  /\ script = "A" /\ env = "ok" /\ tree = <<>> /\ tracker = <<>>
  /\ projectOwner = "none"
  /\ run = 1 /\ prevCreated = {} /\ prevCompleted = FALSE /\ editedAfter = 0
  /\ pc = "idle"
  /\ todos = <<>> /\ filesRead = <<>>
  /\ existingFingerprints = {} /\ newTodos = <<>>
  /\ idx = 0 /\ page = 0 /\ projectId = NoProject /\ issue = NoIssue
  /\ createdCount = 0 /\ exitCode = Running /\ summary = NoSummary
  /\ log = <<>>
  /\ annA = NoAnnotation /\ annB = NoAnnotation
  /\ idStep = "off"
  /\ derived = NoDerived

\* A request thread enters vote(pollId, optionIndex).
vote_call(t) ==
  /\ voteCalls[t].pc = "idle"
  /\ \E pollId \in PollIds, optionIndex \in OptionIndexes :
       voteCalls' = [voteCalls EXCEPT
                       ![t] = [pc |-> "findById", pollId |-> pollId,
                               optionIndex |-> optionIndex, poll |-> NoPoll]]
  /\ UNCHANGED << pipeVars, idVars, pollRepository, formVars >>

\* pollRepository.findById(pollId) and `if(!poll.isPresent()) return`.
vote_findById(t) ==
  /\ voteCalls[t].pc = "findById"
  /\ LET call == voteCalls[t] IN
     voteCalls' = [voteCalls EXCEPT
                     ![t] = IF call.pollId \in DOMAIN pollRepository
                              THEN [call EXCEPT !.pc = "increment",
                                                !.poll = pollRepository[call.pollId]]
                              ELSE [call EXCEPT !.pc = "returned"]]
  /\ UNCHANGED << pipeVars, idVars, pollRepository, formVars >>

\* The test of optionIndex against options.size(), and
\* options.get(optionIndex).setVoteCount(getVoteCount() + 1) on the call's
\* entity (Java counts the options from 0).
vote_increment(t) ==
  /\ voteCalls[t].pc = "increment"
  /\ LET call == voteCalls[t]
         options == call.poll.options
     IN
     voteCalls' = [voteCalls EXCEPT
                     ![t] = IF call.optionIndex < 0 \/ call.optionIndex >= Len(options)
                              THEN [call EXCEPT !.pc = "returned"]
                              ELSE [call EXCEPT
                                      !.pc = "save",
                                      !.poll.options[call.optionIndex + 1].voteCount
                                         = @ + 1]]
  /\ UNCHANGED << pipeVars, idVars, pollRepository, formVars >>

\* poll.get().setOptions(options) and pollRepository.save(poll.get()).
vote_save(t) ==
  /\ voteCalls[t].pc = "save"
  /\ pollRepository' = [pollRepository EXCEPT ![voteCalls[t].pollId] = voteCalls[t].poll]
  /\ voteCalls' = [voteCalls EXCEPT ![t].pc = "returned"]
  /\ UNCHANGED << pipeVars, idVars, formVars >>

NextVote ==
  \E t \in Threads :
     vote_call(t) \/ vote_findById(t) \/ vote_increment(t) \/ vote_save(t)

SpecVote == InitVote /\ [][NextVote]_vars

(***************************************************************************)
(* The poll form (PollComponent).  The page holds a draft poll, newPoll,   *)
(* and the list of polls; createPoll sends the draft and its response      *)
(* arrives later, as next or as error, in any order with other responses   *)
(* and with the user's clicks.                                             *)
(***************************************************************************)
MaxOptions == 4    \* addOption is not called on a draft of this many options
MaxPolls == 2      \* createPoll is not called once this many polls are sent or listed

\* The arguments removeOption is called with: every position of the list,
\* and one before and one past it.
Indexes == -1..MaxOptions

EmptyOption == OptionVote("", 0)
EmptyPoll == Poll("", << EmptyOption, EmptyOption >>)
AtLeastTwo == "At least two options are required."

\* Array.prototype.splice(index, 1): a negative index counts from the end
\* (not before position 0), an index past the end removes nothing.
splice(list, index) ==
  LET start == IF index < 0
               THEN (IF Len(list) + index < 0 THEN 0 ELSE Len(list) + index)
               ELSE (IF index > Len(list) THEN Len(list) ELSE index)
  IN  [k \in 1..(IF start < Len(list) THEN Len(list) - 1 ELSE Len(list)) |->
         IF k <= start THEN list[k] ELSE list[k + 1]]

\* Drop the element at position k (1-based) of a sequence.
Without(seq, k) == [j \in 1..(Len(seq) - 1) |-> IF j < k THEN seq[j] ELSE seq[j + 1]]

InitForm ==
  /\ newPoll = EmptyPoll
  /\ polls = <<>>
  /\ pending = <<>>
  /\ alert = ""
  /\ pollRepository = <<>>
  /\ voteCalls = <<>>
  /\ script = "A" /\ env = "ok" /\ tree = <<>> /\ tracker = <<>>
  /\ projectOwner = "none"
  /\ run = 1 /\ prevCreated = {} /\ prevCompleted = FALSE /\ editedAfter = 0
  /\ pc = "idle"
  /\ todos = <<>> /\ filesRead = <<>>
  /\ existingFingerprints = {} /\ newTodos = <<>>
  /\ idx = 0 /\ page = 0 /\ projectId = NoProject /\ issue = NoIssue
  /\ createdCount = 0 /\ exitCode = Running /\ summary = NoSummary
  /\ log = <<>>
  /\ annA = NoAnnotation /\ annB = NoAnnotation
  /\ idStep = "off"
  /\ derived = NoDerived

FormRest == << pipeVars, idVars, pollRepository, voteCalls >>

addOption ==
  /\ Len(newPoll.options) < MaxOptions
  /\ newPoll' = [newPoll EXCEPT !.options = Append(@, EmptyOption)]
  /\ UNCHANGED << polls, pending, alert, FormRest >>

\* removeOption with its test of the length left out.
removeOption_Unguarded(index) ==
  /\ newPoll' = [newPoll EXCEPT !.options = splice(@, index)]
  /\ UNCHANGED << polls, pending, alert, FormRest >>

removeOption(index) ==
  /\ IF Len(newPoll.options) > 2
     THEN /\ newPoll' = [newPoll EXCEPT !.options = splice(@, index)]
          /\ UNCHANGED alert
     ELSE /\ alert' = AtLeastTwo
          /\ UNCHANGED newPoll
  /\ UNCHANGED << polls, pending, FormRest >>

resetPoll ==
  /\ newPoll' = EmptyPoll
  /\ UNCHANGED << polls, pending, alert, FormRest >>

\* createPoll up to the request: a copy of the draft is sent.
createPoll ==
  /\ Len(pending) + Len(polls) < MaxPolls
  /\ pending' = Append(pending, newPoll)
  /\ UNCHANGED << newPoll, polls, alert, FormRest >>

\* The next callback of createPoll: the server answers with the poll it
\* stored; the page lists it and the draft is reset.
createPoll_next ==
  \E k \in DOMAIN pending :
     /\ polls' = Append(polls, pending[k])
     /\ newPoll' = EmptyPoll
     /\ pending' = Without(pending, k)
     /\ UNCHANGED << alert, FormRest >>

\* The error callback of createPoll: the error is written to the console.
createPoll_error ==
  \E k \in DOMAIN pending :
     /\ pending' = Without(pending, k)
     /\ UNCHANGED << newPoll, polls, alert, FormRest >>

NextForm ==
  \/ addOption
  \/ \E index \in Indexes : removeOption(index)
  \/ resetPoll
  \/ createPoll
  \/ createPoll_next
  \/ createPoll_error

SpecForm == InitForm /\ [][NextForm]_vars

(***************************************************************************)
(* What the checks below read off the state.                               *)
(***************************************************************************)
\* The spec's identity of an annotation: a function of (sourcePath, text).
identity(a) == a.filePath \o <<DELIM>> \o a.text

\* The positions of the log that hold a call of operation op.
CallsOf(op) == { j \in 1..Len(log) : log[j].op = op }

CreateCalls == SelectSeq(log, LAMBDA c : c.op = "create")

\* A container id, as opposed to "none" and "error".
IsContainerId(res) == res \in {"PVT_user", "PVT_org", "PVT_viewer"}

\* The positions in todos of the annotations whose identity is not in E,
\* in scan order.
RECURSIVE SelectedFrom(_, _)
SelectedFrom(i, E) ==
  IF i > Len(todos) THEN <<>>
  ELSE (IF identity(todos[i]) \in E THEN <<>> ELSE <<i>>) \o SelectedFrom(i + 1, E)

Selected == SelectedFrom(1, existingFingerprints)

IsPrefix(s, t) == Len(s) <= Len(t) /\ s = SubSeq(t, 1, Len(s))

\* The existing set has been read: the reconciliation is under way or over.
Reconciling ==
  \/ script = "A" /\ pc \in {"loop", "create", "resolveUser", "attachUser",
                               "resolveOrg", "attachOrg", "count", "delay",
                               "summary", "done"}
  \/ script = "B" /\ pc \in {"getProject", "loop", "create", "attach", "complete"}
  \/ script = "B" /\ pc = "done" /\ todos # <<>>

\* The create loop is over (or main returned before it: nothing to create).
LoopOver ==
  \/ script = "A" /\ pc \in {"summary", "done"}
  \/ script = "B" /\ pc \in {"complete", "done"}

\* A list call of this run failed.
ReadFailed == \E j \in CallsOf("list") : log[j].res = "fail"

(***************************************************************************)
(* C1.  Idempotence across runs: when a run has completed and the next run *)
(* starts from the same tree and the tracker state the first one left,     *)
(* every identity the first run created a record for is in the second      *)
(* run's existing set, and the second run issues no create call for it.    *)
(***************************************************************************)
C1_Idempotent ==
  (run > 1 /\ prevCompleted /\ editedAfter # run - 1 /\ Reconciling) =>
     /\ prevCreated \subseteq existingFingerprints
     /\ \A j \in CallsOf("create") : log[j].arg \notin prevCreated

(***************************************************************************)
(* C2.  Reconciliation correctness: the annotations a create call is       *)
(* attempted for are, in scan order, exactly the scanned annotations whose *)
(* identity is not in the existing set: a prefix of them while the loop    *)
(* runs, all of them when it is over.                                      *)
(***************************************************************************)
C2_WorkList ==
  LET attempted == [j \in 1..Len(CreateCalls) |-> CreateCalls[j].arg]
      expected == [k \in 1..Len(Selected) |-> identity(todos[Selected[k]])]
  IN  /\ Reconciling => IsPrefix(attempted, expected)
      /\ (Reconciling /\ LoopOver) => attempted = expected

\* A run that skipped a tracked annotation and created the untracked ones.
C2_Witness ==
  /\ LoopOver /\ Reconciling
  /\ Len(CreateCalls) > 0
  /\ Len(CreateCalls) < Len(todos)
  /\ \E i \in 1..Len(todos) : identity(todos[i]) \in existingFingerprints

(***************************************************************************)
(* C3.  Fatal baseline read: when the read of the existing records fails,  *)
(* the run ends with a non-zero exit code, and no create, resolve or       *)
(* attach call is issued in that run.                                      *)
(***************************************************************************)
C3_FatalRead ==
  ReadFailed =>
     /\ pc = "exit" /\ exitCode = 1
     /\ CallsOf("create") = {} /\ CallsOf("resolve") = {} /\ CallsOf("attach") = {}

\* The read failed in a run that had annotations to reconcile.
C3_Witness ==
  /\ ReadFailed /\ pc = "exit"
  /\ tree = TreeExample /\ tracker = TrackerEmpty

(***************************************************************************)
(* C4.  Failure isolation: with n selected annotations, whichever create   *)
(* calls fail, the run issues one create call for each selected annotation *)
(* in order and none twice, no run is aborted after a create call, and the *)
(* loop, once entered, comes to its end.                                   *)
(***************************************************************************)
\* The positions (in allTodos for A, in newTodos for B) the loop is to visit.
WorkItems == IF script = "A" THEN Selected ELSE [k \in 1..Len(newTodos) |-> k]

C4_OneCallEach ==
  LET items == [j \in 1..Len(CreateCalls) |-> CreateCalls[j].item]
  IN  /\ Reconciling => IsPrefix(items, WorkItems)
      /\ (Reconciling /\ LoopOver) => items = WorkItems
      /\ pc = "exit" => CallsOf("create") = {}

\* The create loop is running.
InLoop == Reconciling /\ ~LoopOver /\ pc # "getProject"

\* What is left of the loop: the items not yet visited, and within an item
\* the steps up to the next turn of the loop.
StepsLeft ==
  CASE pc = "loop" -> 8
    [] pc = "create" -> 7
    [] pc = "resolveUser" -> 6
    [] pc \in {"attachUser", "attach"} -> 5
    [] pc = "resolveOrg" -> 4
    [] pc = "attachOrg" -> 3
    [] pc = "count" -> 2
    [] pc = "delay" -> 1
    [] OTHER -> 0

LoopLeft ==
  (Len(IF script = "A" THEN todos ELSE newTodos) + 1 - idx) * 9 + StepsLeft

\* Inside the loop the run is never stuck, and every step takes it nearer
\* to the end of the loop.
C4_FailureIsolation ==
  /\ [](C4_OneCallEach /\ (InLoop => ENABLED Next))
  /\ [][InLoop => (LoopLeft' < LoopLeft /\ LoopLeft' >= 0)]_vars

\* The loop ended after a create call failed and a later one was issued.
C4_Witness ==
  /\ LoopOver /\ Reconciling
  /\ \E j, k \in CallsOf("create") : j < k /\ log[j].res = "fail"

(***************************************************************************)
(* C5.  Linking is best-effort: the created count the run reports is the   *)
(* number of create calls that succeeded, whatever the linking did.        *)
(***************************************************************************)
C5_CreatedCounted ==
  summary.printed =>
    summary.created = Cardinality({ j \in CallsOf("create") : log[j].res # "fail" })

(***************************************************************************)
(* C6.  Marker round-trip: the identity read from the body the Record      *)
(* Creator builds for an annotation is the annotation's identity.          *)
(***************************************************************************)
C6_RoundTrip == idStep = "read" => derived.marker = identity(annA)

(***************************************************************************)
(* C7.  Existing set exactness: after a successful read, the set is        *)
(* exactly the set of marker identities of the open TODO-labelled records  *)
(* of the tracker, however many there are.                                 *)
(***************************************************************************)
\* The read is over and nothing was created yet in this run.
JustRead ==
  \/ script = "A" /\ pc = "scan"
  \/ script = "B" /\ pc = "filter"

C7_ExistingExact ==
  JustRead => existingFingerprints = fingerprintsOf(openTodoIssues(tracker))

(***************************************************************************)
(* C8.  Identity is injective: two annotations have the same identity if   *)
(* and only if they have the same path and the same text.                  *)
(***************************************************************************)
C8_Injective ==
  idStep # "input" /\ idStep # "off" =>
    ((derived.fpA = derived.fpB)
       <=> (annA.filePath = annB.filePath /\ annA.text = annB.text))

(***************************************************************************)
(* C9.  Container resolution order: an organization-kind resolve call is   *)
(* issued only after a user-kind resolve call for the same item yielded no *)
(* container, never after one that returned a container id.                *)
(***************************************************************************)
C9_OrgOnlyAfterNoUser ==
  \A j \in CallsOf("resolve") :
     log[j].arg = "organization" =>
       /\ \E i \in CallsOf("resolve") :
             i < j /\ log[i].arg = "user" /\ log[i].item = log[j].item
       /\ \A i \in CallsOf("resolve") :
             (i < j /\ log[i].arg = "user" /\ log[i].item = log[j].item)
                => ~IsContainerId(log[i].res)

(***************************************************************************)
(* C10.  Container id reuse: once a resolve call has returned a container  *)
(* id, no resolve call is issued for a later annotation of the run, and    *)
(* every later attach call uses that id.                                   *)
(***************************************************************************)
C10_ResolvedOnce ==
  \A i \in CallsOf("resolve") :
     IsContainerId(log[i].res) =>
       \A j \in (i + 1)..Len(log) :
          /\ log[j].item > log[i].item => log[j].op # "resolve"
          /\ log[j].op = "attach" => log[j].arg[1] = log[i].res

(***************************************************************************)
(* C11.  Summary accounting: in a printed summary, found is the number of  *)
(* scanned annotations and skipped is the number of scanned annotations    *)
(* whose identity was in the existing set, whatever create or attach call  *)
(* failed.                                                                 *)
(***************************************************************************)
\* The positions in todos of the annotations whose identity is in the
\* existing set.
Duplicates ==
  { i \in 1..Len(todos) : identity(todos[i]) \in existingFingerprints }

C11_SummaryAccounting ==
  summary.printed =>
    /\ summary.found = Len(todos)
    /\ summary.skipped = Cardinality(Duplicates)

(***************************************************************************)
(* C12.  One record per identity: within a run no two create calls carry   *)
(* the same identity, so an annotation repeated in one file and not yet    *)
(* tracked gets one new record.                                            *)
(***************************************************************************)
C12_OneCreatePerIdentity ==
  \A j, k \in CallsOf("create") :
     log[j].arg = log[k].arg => j = k

(***************************************************************************)
(* C13.  Mandatory configuration: when the token or the owner/repository   *)
(* variable is absent, the run goes from its start straight to exit code 1:*)
(* the scan never runs and no remote call is issued.                       *)
(***************************************************************************)
C13_MandatoryConfig ==
  env # "ok" =>
    /\ pc \in {"start", "exit"}
    /\ pc = "start" => ENABLED (A_Validate \/ B_Validate)
    /\ pc = "exit" => exitCode = 1
    /\ todos = <<>>
    /\ log = <<>>

\* A run without its configuration ended on a tree that holds annotations.
C13_Witness ==
  /\ env # "ok" /\ pc = "exit" /\ exitCode = 1
  /\ tree = TreeExample

(***************************************************************************)
(* C14.  Exclusion correctness: no scanned annotation's path has a         *)
(* directory component, at any depth below the root, whose name is in the  *)
(* script's exclusion set, and no file below such a directory is read.     *)
(***************************************************************************)
\* The components of a path, split at the separator.
RECURSIVE PathParts(_)
PathParts(path) ==
  LET e == CHOOSE k \in 1..(Len(path) + 1) :
             /\ k = Len(path) + 1 \/ path[k] = "/"
             /\ \A m \in 1..(k - 1) : path[m] # "/"
  IN  IF e > Len(path) THEN <<path>>
      ELSE <<SubSeq(path, 1, e - 1)>> \o PathParts(SubSeq(path, e + 1, Len(path)))

\* The names of the directories a path goes through.
DirNames(path) ==
  LET parts == PathParts(path) IN { parts[k] : k \in 1..(Len(parts) - 1) }

Excluded == IF script = "A" THEN EXCLUDED_DIRS_A ELSE EXCLUDED_DIRS_B

C14_ExclusionCorrect ==
  /\ \A i \in 1..Len(todos) : DirNames(todos[i].filePath) \cap Excluded = {}
  /\ \A i \in 1..Len(filesRead) : DirNames(filesRead[i]) \cap Excluded = {}

\* The scan went through a tree with annotated files below an excluded
\* directory at the root and below one nested in a scanned directory.
C14_Witness ==
  /\ tree = TreeMixed
  /\ Len(filesRead) = 2 /\ Len(todos) = 2
  /\ \E i \in 1..Len(todos) : DirNames(todos[i].filePath) = {<<"src">>}

(***************************************************************************)
(* C15.  Summary always printed: a run that has read the existing records  *)
(* without a failure never exits with an error and is never stuck before   *)
(* its end, and when it has ended the summary with the found, created and  *)
(* skipped totals has been printed, also when nothing (new) was found.     *)
(***************************************************************************)
\* The read of the existing records was made and no list call failed.
ReadOk == Reconciling \/ (script = "B" /\ pc = "filter")

C15_SummaryPrinted ==
  ReadOk =>
    /\ pc # "exit"
    /\ pc # "done" => ENABLED Next
    /\ pc = "done" => summary.printed

(***************************************************************************)
(* C16.  Pacing: between the last remote call made for one selected        *)
(* annotation and the first remote call made for the next one there is a   *)
(* pacing delay, also when the create or the attach call of the earlier    *)
(* annotation failed.                                                      *)
(***************************************************************************)
\* The positions of the log that hold a remote call made for an annotation.
ItemCalls ==
  { j \in 1..Len(log) : log[j].op \in {"create", "resolve", "attach"}
                          /\ log[j].item > 0 }

C16_Paced ==
  \A j, k \in ItemCalls :
     (j < k /\ log[j].item # log[k].item) =>
        \E d \in (j + 1)..(k - 1) : log[d].op = "delay"

(***************************************************************************)
(* C17.  Nothing new, nothing touched: when no annotation was found, or    *)
(* the identity of every scanned annotation is in the existing set, the    *)
(* run issues no resolve, no create and no attach call, and the created    *)
(* count it keeps and reports is zero.                                     *)
(***************************************************************************)
\* The scan and the read are over and left nothing to create.
NothingNew ==
  \/ Reconciling /\ Selected = <<>>
  \/ script = "B" /\ pc = "filter" /\ Selected = <<>>
  \/ script = "B" /\ pc = "done" /\ todos = <<>>

CreatedUpTo(j) == { c \in CallsOf("create") : c <= j /\ log[c].res # "fail" }

\* The node id of the record the create call at position c made: records
\* are listed newest first.
CreatedNodeId(c) ==
  tracker[Cardinality(CreatedUpTo(Len(log))) - Cardinality(CreatedUpTo(c)) + 1].node_id

C18_CreateLinkPaired ==
  \A j \in CallsOf("attach") :
     \E c \in CallsOf("create") :
        /\ c < j
        /\ \A d \in CallsOf("create") : d < j => d <= c
        /\ log[c].item = log[j].item
        /\ log[c].res = "ok"
        /\ log[j].arg[2] = CreatedNodeId(c)

\* An attach call was issued for a later annotation after an earlier create
\* call had failed or come back without a content id.
C18_Witness ==
  \E j \in CallsOf("attach") :
     \E c \in CallsOf("create") : c < j /\ log[c].res # "ok"

(***************************************************************************)
(* C19.  Closed records are not part of the baseline: every identity of    *)
(* the existing set was read from a record that was open and carried the   *)
(* todo label when the run started; and a scanned annotation whose         *)
(* identity no such record carries (its only record was closed, or lost    *)
(* its label) is not in the existing set, and by the end of the loop a     *)
(* create call was issued for it, which made a new open record carrying    *)
(* the identity unless the tracker rejected the call.                      *)
(***************************************************************************)
\* What this run's create calls added to the tracker: the records are
\* listed newest first.
NewRecords == SubSeq(tracker, 1, Cardinality(CreatedUpTo(Len(log))))

\* The tracker as the run found it.
StartTracker == SubSeq(tracker, Len(NewRecords) + 1, Len(tracker))

\* Nobody has edited the tracker since this run started.
Unedited == editedAfter # run

IsOpenTodo(r) == r.state = "open" /\ "todo" \in r.labels

\* The bodies of the records of a list that are open and carry the label,
\* and of those that are closed or lack it.
OpenBodies(records) ==
  { records[k].body : k \in { m \in 1..Len(records) : IsOpenTodo(records[m]) } }
OtherBodies(records) ==
  { records[k].body : k \in { m \in 1..Len(records) : ~IsOpenTodo(records[m]) } }

IsSuffix(s, t) ==
  Len(s) <= Len(t) /\ s = SubSeq(t, Len(t) - Len(s) + 1, Len(t))

\* The body ends with the marker of identity x, as createIssue writes it.
Carries(body, x) ==
  /\ body # Null
  /\ IsSuffix(<<FP>> \o x \o (IF script = "A" THEN <<NL>> ELSE <<NL, FENCE, NL>>),
              body)

C19_ClosedNotBaseline ==
  (ReadOk /\ Unedited) =>
    LET before == OpenBodies(StartTracker)
        made == OpenBodies(NewRecords)
    IN  /\ \A x \in existingFingerprints :
              \E body \in before : extractFingerprint(body) = x
        /\ \A i \in 1..Len(todos) :
              LET x == identity(todos[i]) IN
              (\A body \in before : ~Carries(body, x)) =>
                 /\ x \notin existingFingerprints
                 /\ LoopOver =>
                      \E c \in CallsOf("create") :
                         /\ log[c].arg = x
                         /\ log[c].res # "fail" =>
                               \E body \in made : Carries(body, x)

\* The only record carrying a scanned annotation's identity was closed or
\* unlabelled before this run, and the run created a new record for it.
C19_Witness ==
  /\ run > 1 /\ editedAfter = run - 1
  /\ ReadOk /\ LoopOver
  /\ \E i \in 1..Len(todos) :
        LET x == identity(todos[i]) IN
        /\ \A body \in OpenBodies(StartTracker) : ~Carries(body, x)
        /\ \E body \in OtherBodies(StartTracker) : Carries(body, x)
        /\ \E c \in CallsOf("create") : log[c].arg = x /\ log[c].res = "ok"

(***************************************************************************)
(* C20.  Existing records are never modified: no step of a run changes or  *)
(* removes a record of the tracker; the tracker changes only by a create   *)
(* call that the tracker accepted, which adds one record; and the only     *)
(* calls a run issues are list, resolve, create and attach calls, also     *)
(* after an attach call failed.                                            *)
(***************************************************************************)
\* A step of the run itself, not of what happens between two runs.
RunStep == pc \notin {"done", "exit"}

C20_RecordsKept ==
  /\ [](\A j \in 1..Len(log) :
          log[j].op \in {"list", "resolve", "create", "attach", "delay"})
  /\ [][RunStep =>
          /\ Len(tracker') >= Len(tracker)
          /\ SubSeq(tracker', Len(tracker') - Len(tracker) + 1, Len(tracker')) = tracker
          /\ tracker' # tracker =>
                /\ Len(tracker') = Len(tracker) + 1
                /\ Len(log') = Len(log) + 1
                /\ log'[Len(log')].op = "create"
                /\ log'[Len(log')].res # "fail"]_vars

\* A run that found records in the tracker ended after it had created a
\* record and an attach call had failed.
C20_Witness ==
  /\ pc = "done" /\ Unedited
  /\ Len(StartTracker) > 0 /\ Len(NewRecords) > 0
  /\ \E j \in CallsOf("attach") : log[j].res = "fail"

(***************************************************************************)
(* C21.  Per-file scan errors are isolated: a file that cannot be read     *)
(* contributes no annotation and does not end the run; the scan result is  *)
(* what the scan of the same tree without that file gives, and the run     *)
(* goes on to the reconciliation.                                          *)
(***************************************************************************)
\* The tree without the files that cannot be read.
RECURSIVE WithoutUnreadable(_)
WithoutUnreadable(entries) ==
  IF entries = <<>> THEN <<>>
  ELSE LET entry == Head(entries)
           rest == WithoutUnreadable(Tail(entries))
       IN  IF entry.kind = "dir"
             THEN <<Dir(entry.name, WithoutUnreadable(entry.entries))>> \o rest
           ELSE IF entry.kind = "file" /\ ~entry.readable THEN rest
           ELSE <<entry>> \o rest

\* The reads of this run that failed.
FailedReads ==
  { i \in 1..Len(filesRead) : filesRead[i] \in UnreadablePaths(tree, <<>>) }

C21_ScanErrorsIsolated ==
  /\ [][pc = "scan" =>
         /\ pc' \in {"loop", "fetch", "done"} /\ exitCode' # 1
         /\ todos' = IF script = "A"
                     THEN scanDirectory(WithoutUnreadable(tree), <<>>)
                     ELSE scanForTodos(WithoutUnreadable(tree), <<>>)]_vars
  /\ [](pc = "exit" => (env # "ok" \/ ReadFailed))

\* A read failed, a file read after it gave annotations, and the run
\* reconciled them to its end.
C21_Witness ==
  /\ \E i \in FailedReads : i < Len(filesRead)
  /\ todos # <<>>
  /\ Reconciling /\ LoopOver
  /\ \E c \in CallsOf("create") : log[c].res = "ok"

(***************************************************************************)
(* C22.  No lost votes under concurrency: when all the calls of vote have  *)
(* returned, the stored count of every option is its initial count plus    *)
(* the number of calls made for that option of that poll.                  *)
(***************************************************************************)
\* The calls with an existing poll and an index of one of its options.
ValidCall(call) ==
  /\ call.pollId \in DOMAIN InitialPolls
  /\ call.optionIndex >= 0
  /\ call.optionIndex < Len(InitialPolls[call.pollId].options)

\* The threads whose call for option i (from 0) of poll p has returned.
Returned(p, i) ==
  { t \in DOMAIN voteCalls :
      /\ voteCalls[t].pc = "returned"
      /\ voteCalls[t].pollId = p /\ voteCalls[t].optionIndex = i }

AllReturned == \A t \in DOMAIN voteCalls : voteCalls[t].pc = "returned"

C22_NoLostVotes ==
  AllReturned =>
    \A p \in DOMAIN pollRepository :
       \A i \in 0..(Len(pollRepository[p].options) - 1) :
          pollRepository[p].options[i + 1].voteCount
            = InitialPolls[p].options[i + 1].voteCount + Cardinality(Returned(p, i))

(***************************************************************************)
(* C23.  A valid vote changes exactly one counter: a call of vote with an  *)
(* existing poll and an index of one of its options changes the repository *)
(* once, in the step it returns with; that step adds exactly 1 to the      *)
(* count of that option and leaves every other count, the question and the *)
(* options of the poll, and every other poll as they were.                 *)
(***************************************************************************)
\* Thread t takes a step of its call, and returns with it or not.
Steps(t) == voteCalls'[t] # voteCalls[t]
Returns(t) == voteCalls[t].pc # "returned" /\ voteCalls'[t].pc = "returned"

C23_ExactlyOneCounter ==
  [][\A t \in DOMAIN voteCalls :
       (ValidCall(voteCalls[t]) /\ Steps(t)) =>
          IF Returns(t)
            THEN pollRepository' =
                   [pollRepository EXCEPT
                      ![voteCalls[t].pollId].options[voteCalls[t].optionIndex + 1].voteCount
                         = @ + 1]
            ELSE pollRepository' = pollRepository]_vars

(***************************************************************************)
(* C24.  An invalid vote changes nothing: a call of vote with an id that   *)
(* is no poll's, or with an index that is no option's, never writes to the *)
(* repository and returns normally; so no step ever lowers a stored count, *)
(* and whenever no call is under way the counts of a poll add up to their  *)
(* initial sum plus the number of valid calls made for the poll.           *)
(***************************************************************************)
RECURSIVE SumVotes(_)
SumVotes(options) ==
  IF options = <<>> THEN 0 ELSE Head(options).voteCount + SumVotes(Tail(options))

\* The threads whose valid call for poll p has returned.
ValidReturned(p) ==
  { t \in DOMAIN voteCalls :
      /\ voteCalls[t].pc = "returned"
      /\ voteCalls[t].pollId = p /\ ValidCall(voteCalls[t]) }

NoCallUnderWay ==
  \A t \in DOMAIN voteCalls : voteCalls[t].pc \in {"idle", "returned"}

C24_InvalidVoteNoChange ==
  /\ [][\A t \in DOMAIN voteCalls :
          (~ValidCall(voteCalls[t]) /\ Steps(t)) =>
             /\ pollRepository' = pollRepository
             /\ voteCalls'[t].pc \in {"findById", "increment", "returned"}]_vars
  /\ [][\A p \in DOMAIN pollRepository :
          \A k \in 1..Len(pollRepository[p].options) :
             pollRepository'[p].options[k].voteCount
               >= pollRepository[p].options[k].voteCount]_vars
  /\ [](NoCallUnderWay =>
          \A p \in DOMAIN pollRepository :
             SumVotes(pollRepository[p].options)
               = SumVotes(InitialPolls[p].options) + Cardinality(ValidReturned(p)))

(***************************************************************************)
(* C25.  The draft poll keeps at least two options: after any sequence of  *)
(* addOption, removeOption, resetPoll and createPoll, with either answer   *)
(* to createPoll, the draft has two options or more; and removeOption      *)
(* called on a draft of exactly two options leaves its options as they are.*)
(***************************************************************************)
C25_DraftKeepsTwoOptions ==
  /\ [](Len(newPoll.options) >= 2)
  /\ [][\A index \in Indexes :
          (Len(newPoll.options) = 2 /\ removeOption(index)) =>
             newPoll'.options = newPoll.options]_vars

\* removeOption has refused a removal (the alert), options have been added
\* and removed again, and a poll has been created.
C25_Witness ==
  /\ alert = AtLeastTwo
  /\ Len(newPoll.options) = 2
  /\ polls # <<>> /\ Len(polls[1].options) > 2
  /\ pending # <<>>

=============================================================================
